---- MODULE Spec2Model ----
(***************************************************************************)
(* Pronunciation scoring of arabic-learner-pal: normalizeArabicText,       *)
(* levenshteinDistance, calculateSimilarity and calculateArabicSimilarity. *)
(* A JavaScript string is modelled as a sequence of UTF-16 code units      *)
(* (integers); every character used here lies in the Basic Multilingual    *)
(* Plane, so one code unit is one character.                               *)
(***************************************************************************)
EXTENDS Integers, Sequences, FiniteSets, TLC

(* ---------------- bounds of the explored inputs ---------------- *)

\* Longest single input string.
MaxLen == 3

\* Largest total length |str1| + |str2| of an input pair.
MaxTotal == 4

\* The two-letter input family LongPairs has strings of every length up to
\* MaxMidLen, and strings of length MaxLongLen.
MaxMidLen == 8

MaxLongLen == 40

\* Length of the longest input, a near-match and a near-mismatch of which are
\* scored.
MaxHugeLen == 201

\* Longest string handed to levenshteinDistance directly.
MaxLevLen == 4

\* Most calls of recognition.start() in one run of a flashcard.
MaxStarts == 2

\* Most result segments the recognizer delivers in one run of a flashcard.
MaxHeard == 3

\* Most result segments in one result event.
MaxEventSegments == 2

\* Most questions in the quiz of a lesson plan.
MaxQuizLen == 2

\* Most calls of generateLessonPlan in one run of the application.
MaxBackendCalls == 2

(* ---------------- code points named by the source ---------------- *)

ALEF == 1575
ALEF_MAQSURA == 1609
YAA == 1610
TAA_MARBUTA == 1577
HAA == 1607
TATWEEL == 1600
SPACE == 32

\* /[ً-ْٰ]/ : Tashkeel
Diacritics == (1611..1618) \cup {1648}

\* AlefVariants without Alef Hamza Above.
AlefVariants_NoHamzaAbove == {1570, 1573}

\* /[آأإ]/ : Alef Madda, Alef Hamza Above, Alef Hamza Below
AlefVariants == {1570, 1571, 1573}

\* ECMAScript WhiteSpace and LineTerminator code units: the class \s of a
\* regular expression and the characters String.prototype.trim strips.
WhiteSpace ==
  {9, 10, 11, 12, 13, 32, 160, 5760, 8232, 8233, 8239, 8287, 12288, 65279}
    \cup (8192..8202)

\* The characters input strings are drawn from: a diacritic (Fatha), an Alef
\* variant, plain Alef, Yaa, Taa Marbuta, Tatweel, space, 'A' and 'a'.  Other
\* white space (tab, line feed) occurs in SpacedPhrase.
Alphabet == {1614, 1571, ALEF, YAA, TAA_MARBUTA, TATWEEL, SPACE, 65, 97}

RECURSIVE StringsOfLen(_)
StringsOfLen(n) ==
  IF n = 0 THEN {<<>>}
  ELSE {Append(s, c) : s \in StringsOfLen(n - 1), c \in Alphabet}

Strings == UNION {StringsOfLen(n) : n \in 0..MaxLen}

ShortPairs ==
  UNION {StringsOfLen(m) \X StringsOfLen(n) :
           <<m, n>> \in {q \in (0..MaxLen) \X (0..MaxLen) : q[1] + q[2] <= MaxTotal}}

RECURSIVE Repeat(_, _)
Repeat(c, n) == IF n = 0 THEN <<>> ELSE <<c>> \o Repeat(c, n - 1)

\* Longer inputs over the two letters 'a' and 'b': n letters 'a' against
\* n - k letters 'a' followed by k letters 'b', in both argument orders.
LongLens == (1..MaxMidLen) \cup {MaxLongLen}

LongPairs ==
  LET fam == UNION {{<<Repeat(97, n), Repeat(97, n - k) \o Repeat(98, k)>> :
                       k \in 0..n} : n \in LongLens}
  IN fam \cup {<<p[2], p[1]>> : p \in fam}

\* The longest inputs: n letters 'a' against the same with the last letter
\* 'b' (one substitution) and against the same with every letter but the
\* first 'b', in both orders.
HugePairs ==
  LET n == MaxHugeLen
      fam == {<<Repeat(97, n), Repeat(97, n - 1) \o <<98>>>>,
              <<Repeat(97, n), <<97>> \o Repeat(98, n - 1)>>}
  IN fam \cup {<<p[2], p[1]>> : p \in fam}

\* The phrases of the end-to-end scenarios of the specification: a greeting
\* with diacritics against a wrong first word, a word with diacritics against
\* the same word without, and a phrase with white space runs and a Tatweel.
SabahAlKhayr ==
  <<1589, 1614, 1576, 1614, 1575, 1581, 1615, 32,
    1575, 1604, 1618, 1582, 1614, 1610, 1618, 1585, 1616>>

MasaaAlKhayr == <<1605, 1587, 1575, 1569, 32, 1575, 1604, 1582, 1610, 1585>>

Shukran == <<1588, 1615, 1603, 1618, 1585, 1611, 1575>>

ShukranPlain == <<1588, 1603, 1585, 1575>>

SpacedPhrase == <<32, 9, 1575, 32, 9, 1600, 10, 1610, 9>>

ScenarioPairs ==
  {<<SabahAlKhayr, MasaaAlKhayr>>, <<Shukran, ShukranPlain>>,
   <<SpacedPhrase, <<1575, 32, 1610>>>>}

\* The inputs of the direct calls of levenshteinDistance: all pairs of strings
\* over two letters.
LevAlphabet == {97, 98}

RECURSIVE LevStringsOfLen(_)
LevStringsOfLen(n) ==
  IF n = 0 THEN {<<>>}
  ELSE {Append(s, c) : s \in LevStringsOfLen(n - 1), c \in LevAlphabet}

LevStrings == UNION {LevStringsOfLen(n) : n \in 0..MaxLevLen}

LevPairs == LevStrings \X LevStrings

InputPairs == ShortPairs \cup LongPairs \cup ScenarioPairs \cup HugePairs

(* ---------------- string primitives of the runtime ---------------- *)

Max(x, y) == IF x >= y THEN x ELSE y

Min(x, y) == IF x <= y THEN x ELSE y

\* String.prototype.toLowerCase on one code unit (the ASCII capitals are the
\* only cased characters among the code units used here).
LowerChar(c) == IF c \in 65..90 THEN c + 32 ELSE c

\* The string of the characters f[1], ..., f[n], as a tuple.
StringOf(f) == SubSeq(f, 1, Len(f))

toLowerCase(s) == StringOf([i \in 1..Len(s) |-> LowerChar(s[i])])

\* String.prototype.trim: what lies between the first and the last character
\* that is not white space.
trim(s) ==
  LET kept == {i \in 1..Len(s) : s[i] \notin WhiteSpace}
      first == CHOOSE i \in kept : \A k \in kept : i <= k
      last == CHOOSE i \in kept : \A k \in kept : i >= k
  IN IF kept = {} THEN <<>> ELSE SubSeq(s, first, last)

\* s.replace(/[set]/g, "")
RemoveAll(s, set) == SelectSeq(s, LAMBDA c : c \notin set)

\* s.replace(/[set]/g, to)
ReplaceAll(s, set, to) ==
  StringOf([i \in 1..Len(s) |-> IF s[i] \in set THEN to ELSE s[i]])

\* ReplaceFinal with a global pattern: every c is replaced.
ReplaceFinal_Global(s, c, to) == ReplaceAll(s, {c}, to)

\* s.replace(/c$/, to): $ without the m flag matches at the end of input only
ReplaceFinal(s, c, to) ==
  IF s /= <<>> /\ s[Len(s)] = c
  THEN Append(SubSeq(s, 1, Len(s) - 1), to)
  ELSE s

\* CollapseWhiteSpace with the pattern / +/g: only runs of spaces collapse.
CollapseWhiteSpace_SpacesOnly(s) ==
  LET positions == [i \in 1..Len(s) |-> i]
      starts == SelectSeq(positions,
                  LAMBDA i : \/ s[i] /= SPACE
                             \/ i = 1
                             \/ s[i - 1] /= SPACE)
  IN StringOf([k \in 1..Len(starts) |-> s[starts[k]]])

\* CollapseWhiteSpace with the replacement "": white space is removed.
CollapseWhiteSpace_Delete(s) == SelectSeq(s, LAMBDA c : c \notin WhiteSpace)

\* s.replace(/\s+/g, " "): every maximal run of white space becomes one
\* space, i.e. the first character of a run is replaced and the others dropped.
CollapseWhiteSpace(s) ==
  LET positions == [i \in 1..Len(s) |-> i]
      starts == SelectSeq(positions,
                  LAMBDA i : \/ s[i] \notin WhiteSpace
                             \/ i = 1
                             \/ s[i - 1] \notin WhiteSpace)
  IN StringOf([k \in 1..Len(starts) |->
                 IF s[starts[k]] \in WhiteSpace THEN SPACE ELSE s[starts[k]]])

(* ---------------- part_000: the scoring functions ---------------- *)

Min3(x, y, z) == Min(x, Min(y, z))

\* Cell with the insertion case of the recurrence left out.
Cell_NoInsertion(prev, cur, c, s2) ==
  LET j == Len(cur)
      cost == IF c = s2[j] THEN 0 ELSE 1
  IN Min(prev[j + 1] + 1, prev[j] + cost)

\* Cell with the cost 1 also for equal characters.
Cell_NoMatch(prev, cur, c, s2) ==
  LET j == Len(cur)
  IN Min3(prev[j + 1] + 1, cur[j] + 1, prev[j] + 1)

\* Lines 18-23, the body of the inner loop: dp[i][j] from row i - 1 and the
\* cells of row i before it.  A row is dp[i][0..n], stored at indices
\* 1..n+1; cur holds dp[i][0..j-1], so the loop variable j is Len(cur).
Cell(prev, cur, c, s2) ==
  LET j == Len(cur)
      cost == IF c = s2[j] THEN 0 ELSE 1
  IN Min3(prev[j + 1] + 1,   \* Deletion
          cur[j] + 1,        \* Insertion
          prev[j] + cost)    \* Substitution

\* The inner loop over j, from j = Len(cur) to hi, in increasing order of j.
\* The range is cut in halves so that the depth of the evaluation grows with
\* the logarithm of the length of the row.
RECURSIVE FillCells(_, _, _, _, _)
FillCells(prev, cur, c, s2, hi) ==
  LET lo == Len(cur)
  IN IF lo > hi THEN cur
     ELSE IF lo = hi THEN Append(cur, Cell(prev, cur, c, s2))
     ELSE FillCells(prev, FillCells(prev, cur, c, s2, (lo + hi) \div 2),
                    c, s2, hi)

\* The inner loop over j of levenshteinDistance: row i of dp from row i - 1.
FillRow(prev, cur, c, s2) == FillCells(prev, cur, c, s2, Len(s2))

\* The outer loop over i, from the row after prev to row hi, in increasing
\* order of i: prev is row i - 1, whose first cell dp[i-1][0] is i - 1.
RECURSIVE FillRows(_, _, _, _)
FillRows(prev, s1, s2, hi) ==
  LET lo == prev[1] + 1
  IN IF lo > hi THEN prev
     ELSE IF lo = hi THEN FillRow(prev, <<lo>>, s1[lo], s2)
     ELSE FillRows(FillRows(prev, s1, s2, (lo + hi) \div 2), s1, s2, hi)

\* The outer loop over i of levenshteinDistance.
FillTable(prev, s1, s2) == FillRows(prev, s1, s2, Len(s1))

\* levenshteinDistance without the initialisation of dp[0][j]: the first row
\* keeps the zeros of Array(n + 1).fill(0).
levenshteinDistance_ZeroRow(s1, s2) ==
  LET n == Len(s2)
      row0 == StringOf([j \in 1..(n + 1) |-> 0])
  IN FillTable(row0, s1, s2)[n + 1]

\* Lines 2-27: dp[0][j] = j, then one row for every character of s1; the
\* result is dp[m][n].
levenshteinDistance(s1, s2) ==
  LET n == Len(s2)
      row0 == StringOf([j \in 1..(n + 1) |-> j - 1])
  IN FillTable(row0, s1, s2)[n + 1]

(* IEEE 754 binary64 arithmetic of line 50, ((maxLength - distance) /       *)
(* maxLength) * 100, and Math.round of line 51.  A positive double is a    *)
(* record [mant, exp]: mant is the 53-bit significand, most significant    *)
(* bit first and equal to 1, and the value is 1.f * 2^exp.                 *)

Precision == 53

RECURSIVE Reverse(_)
Reverse(s) == IF s = <<>> THEN <<>> ELSE Append(Reverse(Tail(s)), Head(s))

RECURSIVE Zeros(_)
Zeros(n) == IF n = 0 THEN <<>> ELSE <<0>> \o Zeros(n - 1)

\* The value of a short bit string, most significant bit first.
RECURSIVE BitsToInt(_)
BitsToInt(bits) ==
  IF bits = <<>> THEN 0
  ELSE 2 * BitsToInt(SubSeq(bits, 1, Len(bits) - 1)) + bits[Len(bits)]

\* Sum of two bit strings, least significant bit first.
RECURSIVE AddLsb(_, _, _)
AddLsb(x, y, carry) ==
  IF x = <<>> /\ y = <<>> THEN (IF carry = 1 THEN <<1>> ELSE <<>>)
  ELSE LET bx == IF x = <<>> THEN 0 ELSE Head(x)
           by == IF y = <<>> THEN 0 ELSE Head(y)
           sum == bx + by + carry
       IN <<sum % 2>> \o AddLsb(IF x = <<>> THEN <<>> ELSE Tail(x),
                                IF y = <<>> THEN <<>> ELSE Tail(y),
                                sum \div 2)

\* Round an exact significand (most significant bit first, leading bit 1, at
\* least 53 bits) with binary exponent exp to binary64: round to nearest,
\* ties to even.
RoundToDouble(bits, exp) ==
  LET kept == SubSeq(bits, 1, Precision)
      dropped == SubSeq(bits, Precision + 1, Len(bits))
      guard == IF dropped = <<>> THEN 0 ELSE Head(dropped)
      sticky == \E i \in 2..Len(dropped) : dropped[i] = 1
      up == guard = 1 /\ (sticky \/ kept[Precision] = 1)
      inc == Reverse(AddLsb(Reverse(kept), <<1>>, 0))
  IN IF ~up THEN [mant |-> kept, exp |-> exp]
     ELSE IF Len(inc) > Precision
          THEN [mant |-> SubSeq(inc, 1, Precision), exp |-> exp + 1]
          ELSE [mant |-> inc, exp |-> exp]

\* The next n quotient bits of rem / den by long division, followed by a
\* last bit that is 1 iff the division left a remainder.
RECURSIVE DivBits(_, _, _)
DivBits(rem, den, n) ==
  IF n = 0 THEN <<IF rem > 0 THEN 1 ELSE 0>>
  ELSE IF 2 * rem >= den
       THEN <<1>> \o DivBits(2 * rem - den, den, n - 1)
       ELSE <<0>> \o DivBits(2 * rem, den, n - 1)

\* The least e with num * 2^e >= den.
RECURSIVE ShiftToUnit(_, _)
ShiftToUnit(num, den) ==
  IF num >= den THEN 0 ELSE 1 + ShiftToUnit(2 * num, den)

RECURSIVE Pow2(_)
Pow2(n) == IF n = 0 THEN 1 ELSE 2 * Pow2(n - 1)

\* The double num / den for integers 0 < num < den.
DoubleDiv(num, den) ==
  LET e == ShiftToUnit(num, den)
      \* 53 exact bits, a guard bit, and a sticky bit for the remainder
      bits == <<1>> \o DivBits(num * Pow2(e) - den, den, Precision)
  IN RoundToDouble(bits, -e)

\* The double x * 100 for a double x.
DoubleTimes100(x) ==
  LET m == Reverse(x.mant)
      prod == Reverse(AddLsb(AddLsb(Zeros(6) \o m, Zeros(5) \o m, 0),
                             Zeros(2) \o m, 0))
  IN RoundToDouble(prod, x.exp + (Len(prod) - Precision))

\* DoubleRound with Math.floor in the place of Math.round.
DoubleRound_Floor(x) ==
  IF x.exp < 0 THEN 0 ELSE BitsToInt(SubSeq(x.mant, 1, x.exp + 1))

\* Math.round of a positive double below 2^52: floor(x + 1/2).
DoubleRound(x) ==
  IF x.exp < -1 THEN 0
  ELSE IF x.exp = -1 THEN 1
  ELSE BitsToInt(SubSeq(x.mant, 1, x.exp + 1)) + x.mant[x.exp + 2]

\* Math.round(((maxLength - distance) / maxLength) * 100), where
\* num = maxLength - distance and den = maxLength, 0 <= num <= den, den > 0.
MathRoundPercentDouble(num, den) ==
  IF num = 0 THEN 0
  ELSE IF num = den THEN 100
  ELSE DoubleRound(DoubleTimes100(DoubleDiv(num, den)))

\* The largest maxLength an input pair can produce.
MaxM == Max(MaxLen, Max(MaxMidLen, MaxLongLen))

\* The rounded percentages, computed once for every maxLength and distance.
RoundTable ==
  [den \in (1..MaxM) \cup {MaxHugeLen} |->
     [num \in 0..den |-> MathRoundPercentDouble(num, den)]]

MathRoundPercent(num, den) == RoundTable[den][num]

\* SimilarityPercent with maxLength + distance in the place of
\* maxLength - distance.
SimilarityPercent_SignSlip(maxLength, distance) ==
  Max(0, (200 * (maxLength + distance) + maxLength) \div (2 * maxLength))

\* Lines 50-51: Math.max(0, Math.round(((maxLength - distance) / maxLength) * 100)).
SimilarityPercent(maxLength, distance) ==
  Max(0, MathRoundPercent(maxLength - distance, maxLength))

\* BasicNormalize without the call of toLowerCase.
BasicNormalize_TrimOnly(str) == trim(str)

\* Lines 40-41: str.trim().toLowerCase().
BasicNormalize(str) == toLowerCase(trim(str))

\* calculateSimilarity without the exact-match return of line 43.
calculateSimilarityRun_NoExactMatch(a, b) ==
  IF a = <<>> /\ b = <<>>
  THEN [ret |-> 100, path |-> "bothEmpty", distanceCalls |-> 0]
  ELSE IF a = <<>> \/ b = <<>>
  THEN [ret |-> 0, path |-> "oneEmpty", distanceCalls |-> 0]
  ELSE LET s1Normalized == BasicNormalize(a)
           s2Normalized == BasicNormalize(b)
           distance == levenshteinDistance(s1Normalized, s2Normalized)
           maxLength == Max(Len(s1Normalized), Len(s2Normalized))
       IN IF maxLength = 0
          THEN [ret |-> 100, path |-> "fallback", distanceCalls |-> 1]
          ELSE [ret |-> SimilarityPercent(maxLength, distance),
                path |-> "scored", distanceCalls |-> 1]

\* One execution of calculateSimilarity: the value returned, the return
\* statement taken and the number of calls of levenshteinDistance made.
calculateSimilarityRun(a, b) ==
  IF a = <<>> /\ b = <<>>
  THEN [ret |-> 100, path |-> "bothEmpty", distanceCalls |-> 0]
  ELSE IF a = <<>> \/ b = <<>>
  THEN [ret |-> 0, path |-> "oneEmpty", distanceCalls |-> 0]
  ELSE LET s1Normalized == BasicNormalize(a)
           s2Normalized == BasicNormalize(b)
           distance == levenshteinDistance(s1Normalized, s2Normalized)
           maxLength == Max(Len(s1Normalized), Len(s2Normalized))
       IN IF s1Normalized = s2Normalized
          THEN [ret |-> 100, path |-> "exactMatch", distanceCalls |-> 0]
          ELSE IF maxLength = 0
          THEN [ret |-> 100, path |-> "fallback", distanceCalls |-> 1]
          ELSE [ret |-> SimilarityPercent(maxLength, distance),
                path |-> "scored", distanceCalls |-> 1]

calculateSimilarity(a, b) == calculateSimilarityRun(a, b).ret

\* normalizeArabicText without the Taa Marbuta step.
normalizeArabicText_KeepTaaMarbuta(text) ==
  IF text = <<>> THEN <<>>
  ELSE LET n1 == RemoveAll(text, Diacritics)
           n2 == ReplaceAll(n1, AlefVariants, ALEF)
           n3 == ReplaceFinal(n2, YAA, ALEF_MAQSURA)
           n5 == RemoveAll(n3, {TATWEEL})
       IN trim(CollapseWhiteSpace(n5))

\* normalizeArabicText without the removal of the diacritics.
normalizeArabicText_KeepDiacritics(text) ==
  IF text = <<>> THEN <<>>
  ELSE LET n2 == ReplaceAll(text, AlefVariants, ALEF)
           n3 == ReplaceFinal(n2, YAA, ALEF_MAQSURA)
           n4 == ReplaceAll(n3, {TAA_MARBUTA}, HAA)
           n5 == RemoveAll(n4, {TATWEEL})
       IN trim(CollapseWhiteSpace(n5))

normalizeArabicText(text) ==
  IF text = <<>> THEN <<>>
  ELSE LET n1 == RemoveAll(text, Diacritics)
           n2 == ReplaceAll(n1, AlefVariants, ALEF)
           n3 == ReplaceFinal(n2, YAA, ALEF_MAQSURA)
           n4 == ReplaceAll(n3, {TAA_MARBUTA}, HAA)
           n5 == RemoveAll(n4, {TATWEEL})
       IN trim(CollapseWhiteSpace(n5))

\* calculateArabicSimilarity with the empty-string checks left to
\* calculateSimilarity, i.e. made after the normalization.
calculateArabicSimilarityRun_NormalizeFirst(a, b) ==
  LET inner == calculateSimilarityRun(normalizeArabicText(a),
                                      normalizeArabicText(b))
  IN [ret |-> inner.ret, path |-> inner.path,
      distanceCalls |-> inner.distanceCalls, normalizeCalls |-> 2]

\* calculateArabicSimilarity passing the raw str2 to calculateSimilarity.
calculateArabicSimilarityRun_OneNormalized(a, b) ==
  IF a = <<>> /\ b = <<>>
  THEN [ret |-> 100, path |-> "bothEmpty", distanceCalls |-> 0,
        normalizeCalls |-> 0]
  ELSE IF a = <<>> \/ b = <<>>
  THEN [ret |-> 0, path |-> "oneEmpty", distanceCalls |-> 0,
        normalizeCalls |-> 0]
  ELSE LET inner == calculateSimilarityRun(normalizeArabicText(a), b)
       IN [ret |-> inner.ret, path |-> inner.path,
           distanceCalls |-> inner.distanceCalls, normalizeCalls |-> 2]

\* calculateArabicSimilarity passing both raw inputs to calculateSimilarity.
calculateArabicSimilarityRun_RawInputs(a, b) ==
  IF a = <<>> /\ b = <<>>
  THEN [ret |-> 100, path |-> "bothEmpty", distanceCalls |-> 0,
        normalizeCalls |-> 0]
  ELSE IF a = <<>> \/ b = <<>>
  THEN [ret |-> 0, path |-> "oneEmpty", distanceCalls |-> 0,
        normalizeCalls |-> 0]
  ELSE LET inner == calculateSimilarityRun(a, b)
       IN [ret |-> inner.ret, path |-> inner.path,
           distanceCalls |-> inner.distanceCalls, normalizeCalls |-> 2]

\* One execution of calculateArabicSimilarity.
calculateArabicSimilarityRun(a, b) ==
  IF a = <<>> /\ b = <<>>
  THEN [ret |-> 100, path |-> "bothEmpty", distanceCalls |-> 0,
        normalizeCalls |-> 0]
  ELSE IF a = <<>> \/ b = <<>>
  THEN [ret |-> 0, path |-> "oneEmpty", distanceCalls |-> 0,
        normalizeCalls |-> 0]
  ELSE LET normalizedS1 == normalizeArabicText(a)
           normalizedS2 == normalizeArabicText(b)
           inner == calculateSimilarityRun(normalizedS1, normalizedS2)
       IN [ret |-> inner.ret, path |-> inner.path,
           distanceCalls |-> inner.distanceCalls, normalizeCalls |-> 2]

calculateArabicSimilarity(a, b) == calculateArabicSimilarityRun(a, b).ret

(* ---------------- the state machine: one call on one input pair -------- *)

VARIABLES
  str1,            \* first argument
  str2,            \* second argument
  pc,              \* "idle" before the call, "done" after it returned
  fn,              \* the function that was called
  ret,             \* the number returned (-1: none)
  retText,         \* the string returned by normalizeArabicText
  path,            \* the return statement taken
  distanceCalls,   \* calls of levenshteinDistance made
  normalizeCalls,  \* calls of normalizeArabicText made by the scorer
  isSupported,       \* useSpeechRecognition: isSupported
  isListening,       \* useSpeechRecognition: isListening
  transcript,        \* useSpeechRecognition: transcript
  interimTranscript, \* useSpeechRecognition: interimTranscript
  error,             \* useSpeechRecognition: error
  recognition,       \* session state of recognitionRef.current
  attemptScore,      \* Flashcard: attemptScore
  finalUserAttempt,  \* Flashcard: finalUserAttempt
  scorerCall,        \* the last call of calculateArabicSimilarity by the flashcard
  heard,             \* the result segments delivered so far
  starts,            \* calls of recognition.start() made so far
  session,           \* the attempt whose speech the session of
                     \* recognitionRef.current records: the last call of
                     \* recognition.start() made before the session was
                     \* running (0: none)
  hookCall,          \* the function of the hook that ran last
  apiKeyConfigured,     \* geminiService.isApiKeyConfigured()
  currentView,          \* App: currentView
  lessonPlan,           \* App: lessonPlan
  quizScore,            \* App: quizScore
  userQuizAnswers,      \* App: userQuizAnswers
  isLoading,            \* App: isLoading
  appError,             \* App: error
  request,              \* calls of generateLessonPlan that have not settled
  backendCalls,         \* calls of generateLessonPlan made so far
  fileReads,            \* TopicInputForm: submissions waiting for their file
  currentQuestionIndex, \* QuizView: currentQuestionIndex
  selectedAnswer,       \* QuizView: selectedAnswer
  isAnswered,           \* QuizView: isAnswered
  score,                \* QuizView: score
  userAnswers           \* QuizView: userAnswers

textVars ==
  <<str1, str2, pc, fn, ret, retText, path, distanceCalls, normalizeCalls>>

hookVars ==
  <<isSupported, isListening, transcript, interimTranscript, error,
    recognition, heard, starts, session, hookCall>>

cardVars == <<attemptScore, finalUserAttempt, scorerCall>>

speechVars == <<hookVars, cardVars>>

quizVars ==
  <<currentQuestionIndex, selectedAnswer, isAnswered, score, userAnswers>>

appVars ==
  <<apiKeyConfigured, currentView, lessonPlan, quizScore, userQuizAnswers,
    isLoading, appError, request, backendCalls, fileReads, quizVars>>

vars == <<textVars, speechVars, appVars>>

\* attemptScore and error when they are null.
NoScore == -1

NoError == "null"

\* item.arabic of the flashcard.
ItemArabic == Shukran

\* The state of the hook after it is mounted in a browser that has the
\* speech recognition interface (supported) or has not.
HookMounted(supported) ==
  /\ isSupported = supported
  /\ isListening = FALSE
  /\ transcript = <<>>
  /\ interimTranscript = <<>>
  /\ error = NoError
  /\ recognition = "idle"
  /\ heard = <<>>
  /\ starts = 0
  /\ session = 0
  /\ hookCall = "none"

\* The state of the flashcard itself after it is mounted.
CardMounted ==
  /\ attemptScore = NoScore
  /\ finalUserAttempt = <<>>
  /\ scorerCall = [invoked |-> FALSE, reference |-> <<>>, attempt |-> <<>>,
                   isListening |-> FALSE, session |-> 0]

\* The state of a flashcard whose speech practice is rendered, after it is
\* mounted: the initial values of useState, which the effect on item leaves
\* as they are.
FlashcardMounted == HookMounted(TRUE) /\ CardMounted

\* lessonPlan, an answer and the error of App when they are null.
NoPlan == [title |-> "null", vocabularyIsArray |-> FALSE,
           phrasesIsArray |-> FALSE, quizIsArray |-> FALSE, quiz |-> <<>>]

NoAnswer == "null"

\* The state of QuizView when it is mounted with a quiz of n questions,
\* lines 13-17 of QuizView; the same values stand for a QuizView that is not
\* mounted, with n = 0.
QuizMounted(n) ==
  /\ currentQuestionIndex = 0
  /\ selectedAnswer = NoAnswer
  /\ isAnswered = FALSE
  /\ score = 0
  /\ userAnswers = [i \in 1..n |-> NoAnswer]

\* Lines 128-132 of App: the message shown when the key is missing.
ApiKeyMissingMessage ==
  "Application is not configured correctly. The Gemini API key is missing or invalid."

\* The state of App after it is mounted and its API key check has run, lines
\* 118-137 of App, with the key configured or not.
AppMounted(configured) ==
  /\ apiKeyConfigured = configured
  /\ currentView = (IF configured THEN "setup" ELSE "apiKeyMissing")
  /\ lessonPlan = NoPlan
  /\ quizScore = 0
  /\ userQuizAnswers = <<>>
  /\ isLoading = FALSE
  /\ appError = (IF configured THEN NoError ELSE ApiKeyMissingMessage)
  /\ request = 0
  /\ backendCalls = 0
  /\ fileReads = 0
  /\ QuizMounted(0)

\* No call of a text function is in progress.
NoTextCall ==
  /\ str1 = <<>>
  /\ str2 = <<>>
  /\ pc = "idle"
  /\ fn = "none"
  /\ ret = -1
  /\ retText = <<>>
  /\ path = "none"
  /\ distanceCalls = 0
  /\ normalizeCalls = 0

Init ==
  /\ \E p \in InputPairs : str1 = p[1] /\ str2 = p[2]
  /\ pc = "idle"
  /\ fn = "none"
  /\ ret = -1
  /\ retText = <<>>
  /\ path = "none"
  /\ distanceCalls = 0
  /\ normalizeCalls = 0
  /\ FlashcardMounted
  /\ AppMounted(TRUE)

CallNormalizeArabicText ==
  /\ pc = "idle"
  /\ pc' = "done"
  /\ fn' = "normalizeArabicText"
  /\ retText' = normalizeArabicText(str1)
  /\ UNCHANGED <<str1, str2, ret, path, distanceCalls, normalizeCalls>>
  /\ UNCHANGED <<speechVars, appVars>>

CallCalculateSimilarity ==
  /\ pc = "idle"
  /\ LET run == calculateSimilarityRun(str1, str2)
     IN /\ ret' = run.ret
        /\ path' = run.path
        /\ distanceCalls' = run.distanceCalls
  /\ pc' = "done"
  /\ fn' = "calculateSimilarity"
  /\ UNCHANGED <<str1, str2, retText, normalizeCalls>>
  /\ UNCHANGED <<speechVars, appVars>>

CallCalculateArabicSimilarity ==
  /\ pc = "idle"
  /\ LET run == calculateArabicSimilarityRun(str1, str2)
     IN /\ ret' = run.ret
        /\ path' = run.path
        /\ distanceCalls' = run.distanceCalls
        /\ normalizeCalls' = run.normalizeCalls
  /\ pc' = "done"
  /\ fn' = "calculateArabicSimilarity"
  /\ UNCHANGED <<str1, str2, retText>>
  /\ UNCHANGED <<speechVars, appVars>>

Next ==
  \/ CallNormalizeArabicText
  \/ CallCalculateSimilarity
  \/ CallCalculateArabicSimilarity

Spec == Init /\ [][Next]_vars

(* ---------------- direct calls of levenshteinDistance ---------------- *)

InitLev ==
  /\ \E p \in LevPairs : str1 = p[1] /\ str2 = p[2]
  /\ pc = "idle"
  /\ fn = "none"
  /\ ret = -1
  /\ retText = <<>>
  /\ path = "none"
  /\ distanceCalls = 0
  /\ normalizeCalls = 0
  /\ FlashcardMounted
  /\ AppMounted(TRUE)

CallLevenshteinDistance ==
  /\ pc = "idle"
  /\ pc' = "done"
  /\ fn' = "levenshteinDistance"
  /\ ret' = levenshteinDistance(str1, str2)
  /\ distanceCalls' = 1
  /\ UNCHANGED <<str1, str2, retText, path, normalizeCalls>>
  /\ UNCHANGED <<speechVars, appVars>>

NextLev == CallLevenshteinDistance

SpecLev == InitLev /\ [][NextLev]_vars

(* ---------------- speech practice on one flashcard ------------------- *)
(* useSpeechRecognition and the Flashcard component that uses it.  One    *)
(* action is one event handler together with the render and the effects  *)
(* that follow it.                                                        *)

\* What the learner can be heard to say: the reference without its last
\* letter, and its last letter.
SpokenShukr == <<1588, 1603, 1585>>

SpokenAlef == <<1575>>

SegmentTexts == {SpokenShukr, SpokenAlef}

\* event.results[i]: isFinal and the transcript of its first alternative.
Segments == [isFinal : BOOLEAN, transcript : SegmentTexts]

RECURSIVE SegmentLists(_)
SegmentLists(n) ==
  IF n = 0 THEN {<<>>}
  ELSE {Append(l, g) : l \in SegmentLists(n - 1), g \in Segments}

\* The segments from event.resultIndex on, of one result event.
ResultEvents == UNION {SegmentLists(n) : n \in 1..MaxEventSegments}

\* event.error of an error event.
ErrorCodes == {"no-speech", "audio-capture", "not-allowed", "network"}

\* Lines 129-136 of the hook: the message shown for an error code.
ErrorMessage(code) ==
  CASE code = "no-speech" -> "No speech was detected. Please try again."
    [] code = "audio-capture" ->
         "Audio capture failed. Ensure microphone is working and permissions are granted."
    [] code = "not-allowed" ->
         "Microphone access denied. Please allow microphone access in your browser settings."
    [] OTHER -> "Speech recognition error: " \o code \o "."

\* Line 150 of the hook.
CouldNotStart ==
  "Could not start speech recognition. Ensure permissions are granted."

\* The loop of onresult: the transcripts of the final (or of the interim)
\* segments of the event, concatenated.
RECURSIVE ChunkOf(_, _)
ChunkOf(segments, final) ==
  IF segments = <<>> THEN <<>>
  ELSE (IF Head(segments).isFinal = final THEN Head(segments).transcript
        ELSE <<>>)
       \o ChunkOf(Tail(segments), final)

\* recognition.stop(): a session that is starting or running stops; it
\* delivers its end event later.
StopRecognition(r) == IF r \in {"starting", "running"} THEN "stopping" ELSE r

\* Lines 55-62 of the flashcard, run after the render that follows a
\* handler: listening and text are the new isListening and transcript, newScore
\* and attempt the values the handler gave attemptScore and finalUserAttempt.
\* The effect runs when one of its dependencies changed.
ScoringEffect(listening, text, newScore, attempt) ==
  IF /\ (listening /= isListening \/ text /= transcript)
     /\ ~listening
     /\ text /= <<>>
  THEN /\ finalUserAttempt' = text
       /\ attemptScore' = calculateArabicSimilarity(ItemArabic, text)
       /\ scorerCall' = [invoked |-> TRUE, reference |-> ItemArabic,
                         attempt |-> text, isListening |-> listening,
                         session |-> session']
  ELSE /\ finalUserAttempt' = attempt
       /\ attemptScore' = newScore
       /\ UNCHANGED scorerCall

(* The functions and the recognizer callbacks of the hook: what each does   *)
(* to the state of the hook.                                                *)

\* startListening without the test of isListening at line 93.
startListening_NoListeningTest ==
  /\ hookCall' = "startListening"
  /\ IF ~isSupported
     THEN UNCHANGED <<isListening, transcript, interimTranscript, error,
                      recognition, starts, session>>
     ELSE /\ starts < MaxStarts
          /\ starts' = starts + 1
          /\ transcript' = <<>>
          /\ interimTranscript' = <<>>
          /\ IF recognition = "idle"
             THEN /\ recognition' = "starting"
                  /\ session' = starts + 1
                  /\ error' = NoError
                  /\ UNCHANGED isListening
             ELSE /\ error' = CouldNotStart
                  /\ isListening' = FALSE
                  /\ session' = (IF recognition = "starting" THEN starts + 1
                                 ELSE session)
                  /\ UNCHANGED recognition
  /\ UNCHANGED <<isSupported, heard>>

\* startListening, lines 92-154 of the hook: nothing when unsupported or
\* listening; otherwise the three resets and recognition.start(), which
\* throws when the session of an earlier start() has not ended.
startListening ==
  /\ hookCall' = "startListening"
  /\ IF ~isSupported \/ isListening
     THEN UNCHANGED <<isListening, transcript, interimTranscript, error,
                      recognition, starts, session>>
     ELSE /\ starts < MaxStarts
          /\ starts' = starts + 1
          /\ transcript' = <<>>
          /\ interimTranscript' = <<>>
          /\ IF recognition = "idle"
             THEN /\ recognition' = "starting"
                  /\ session' = starts + 1
                  /\ error' = NoError
                  /\ UNCHANGED isListening
             ELSE /\ error' = CouldNotStart
                  /\ isListening' = FALSE
                  /\ session' = (IF recognition = "starting" THEN starts + 1
                                 ELSE session)
                  /\ UNCHANGED recognition
  /\ UNCHANGED <<isSupported, heard>>

\* stopListening, lines 156-161 of the hook.
stopListening ==
  /\ hookCall' = "stopListening"
  /\ IF isListening
     THEN /\ recognition' = StopRecognition(recognition)
          /\ isListening' = FALSE
     ELSE UNCHANGED <<recognition, isListening>>
  /\ UNCHANGED <<isSupported, transcript, interimTranscript, error, heard,
                 starts, session>>

\* resetTranscript, lines 163-167 of the hook.
resetTranscript ==
  /\ hookCall' = "resetTranscript"
  /\ transcript' = <<>>
  /\ interimTranscript' = <<>>
  /\ error' = NoError
  /\ UNCHANGED <<isSupported, isListening, recognition, heard, starts, session>>

\* recognition.onstart, lines 105-107 of the hook.
OnStart ==
  /\ recognition = "starting"
  /\ hookCall' = "onstart"
  /\ recognition' = "running"
  /\ isListening' = TRUE
  /\ UNCHANGED <<isSupported, transcript, interimTranscript, error, heard,
                 starts, session>>

\* recognition.onresult with the isFinal test dropped: every segment is
\* appended to the transcript.
OnResult_AppendInterim ==
  /\ recognition \in {"running", "stopping"}
  /\ hookCall' = "onresult"
  /\ \E event \in ResultEvents :
       /\ Len(heard) + Len(event) <= MaxHeard
       /\ LET chunk == ChunkOf(event, TRUE) \o ChunkOf(event, FALSE)
          IN /\ transcript' = (IF chunk /= <<>> THEN transcript \o chunk
                               ELSE transcript)
             /\ interimTranscript' = ChunkOf(event, FALSE)
       /\ heard' = heard \o event
  /\ UNCHANGED <<isSupported, isListening, error, recognition, starts, session>>

\* recognition.onresult, lines 109-125 of the hook; a session that was
\* stopped can still deliver results before it ends.
OnResult ==
  /\ recognition \in {"running", "stopping"}
  /\ hookCall' = "onresult"
  /\ \E event \in ResultEvents :
       /\ Len(heard) + Len(event) <= MaxHeard
       /\ LET finalTranscriptChunk == ChunkOf(event, TRUE)
              interimTranscriptChunk == ChunkOf(event, FALSE)
          IN /\ transcript' = (IF finalTranscriptChunk /= <<>>
                               THEN transcript \o finalTranscriptChunk
                               ELSE transcript)
             /\ interimTranscript' = interimTranscriptChunk
       /\ heard' = heard \o event
  /\ UNCHANGED <<isSupported, isListening, error, recognition, starts, session>>

\* recognition.onerror, lines 127-139 of the hook; the session delivers
\* nothing but its end event afterwards.
OnError ==
  /\ recognition \in {"starting", "running", "stopping"}
  /\ hookCall' = "onerror"
  /\ \E code \in ErrorCodes : error' = ErrorMessage(code)
  /\ isListening' = FALSE
  /\ recognition' = "ending"
  /\ UNCHANGED <<isSupported, transcript, interimTranscript, heard, starts,
                 session>>

\* recognition.onend, lines 141-144 of the hook.
OnEnd ==
  /\ recognition \in {"running", "stopping", "ending"}
  /\ hookCall' = "onend"
  /\ recognition' = "idle"
  /\ isListening' = FALSE
  /\ interimTranscript' = <<>>
  /\ UNCHANGED <<isSupported, transcript, error, heard, starts, session>>

(* The flashcard: a handler or a callback of the hook, then the render and *)
(* the scoring effect.                                                      *)

\* The scoring effect after a step that left attemptScore and
\* finalUserAttempt alone.
AfterRender ==
  ScoringEffect(isListening', transcript', attemptScore, finalUserAttempt)

\* stopListening called by the flashcard.
StopListening == stopListening /\ AfterRender

\* handleMicClick, lines 39-53 of the flashcard: stopListening while
\* listening; otherwise resetTranscript, the two resets of the flashcard and
\* startListening, which passes its test as the flashcard is not listening
\* and repeats the resets of resetTranscript.
HandleMicClick ==
  IF isListening
  THEN StopListening
  ELSE /\ startListening
       /\ ScoringEffect(isListening', transcript', NoScore, <<>>)

\* handlePlayAudio, lines 33-37 of the flashcard.
HandlePlayAudio ==
  IF isListening
  THEN StopListening
  ELSE UNCHANGED speechVars

RecognitionStart == OnStart /\ AfterRender

RecognitionResult == OnResult /\ AfterRender

RecognitionError == OnError /\ AfterRender

RecognitionEnd == OnEnd /\ AfterRender

\* attemptScore >= 75 with > in the place of >=.
FeedbackTier_StrictGreen(percent) ==
  IF percent > 75 THEN "text-green-600"
  ELSE IF percent >= 50 THEN "text-yellow-600"
  ELSE "text-red-600"

\* Line 116 of the flashcard: the colour class of the score line.
FeedbackTier(percent) ==
  IF percent >= 75 THEN "text-green-600"
  ELSE IF percent >= 50 THEN "text-yellow-600"
  ELSE "text-red-600"

\* Lines 115-119 of the flashcard: the score line is rendered when there is
\* a score and the hook is not listening.
ShownTier ==
  IF attemptScore /= NoScore /\ ~isListening
  THEN FeedbackTier(attemptScore)
  ELSE "none"

InitSpeech == NoTextCall /\ FlashcardMounted /\ AppMounted(TRUE)

NextSpeech ==
  \/ (HandleMicClick /\ UNCHANGED <<textVars, appVars>>)
  \/ (HandlePlayAudio /\ UNCHANGED <<textVars, appVars>>)
  \/ (RecognitionStart /\ UNCHANGED <<textVars, appVars>>)
  \/ (RecognitionResult /\ UNCHANGED <<textVars, appVars>>)
  \/ (RecognitionError /\ UNCHANGED <<textVars, appVars>>)
  \/ (RecognitionEnd /\ UNCHANGED <<textVars, appVars>>)

SpecSpeech == InitSpeech /\ [][NextSpeech]_vars

(* ---------------- the hook under any caller -------------------------- *)

InitHook ==
  /\ NoTextCall
  /\ \E supported \in BOOLEAN : HookMounted(supported)
  /\ CardMounted
  /\ AppMounted(TRUE)

NextHook ==
  \/ (startListening /\ UNCHANGED <<textVars, cardVars, appVars>>)
  \/ (stopListening /\ UNCHANGED <<textVars, cardVars, appVars>>)
  \/ (resetTranscript /\ UNCHANGED <<textVars, cardVars, appVars>>)
  \/ (OnStart /\ UNCHANGED <<textVars, cardVars, appVars>>)
  \/ (OnResult /\ UNCHANGED <<textVars, cardVars, appVars>>)
  \/ (OnError /\ UNCHANGED <<textVars, cardVars, appVars>>)
  \/ (OnEnd /\ UNCHANGED <<textVars, cardVars, appVars>>)

SpecHook == InitHook /\ [][NextHook]_vars

(* ---------------- the application: lesson, quiz, results -------------- *)
(* geminiService.generateLessonPlan, App, TopicInputForm and QuizView.  A *)
(* lesson plan is the value JSON.parse gave; of its vocabulary and       *)
(* phrases only whether they are arrays matters here.  An absent string  *)
(* field is the empty string, which JavaScript also treats as absent.    *)

\* types.ts, line 63.
AppView ==
  {"setup", "loading", "lesson", "quiz", "results", "error", "apiKeyMissing"}

\* types.ts, lines 31-47: the question types.
ArabicToEnglish == "arabic_to_english_mc"

EnglishToArabic == "english_to_arabic_mc"

\* An option of a question: a string, or an object with the field arabic.
StringOption(t) == [kind |-> "string", text |-> t]

ArabicOption(t) == [kind |-> "object", text |-> t]

\* Questions the backend may answer with: one whose correct answer is one of
\* its options, one whose correct answer is not, and two that lack a field.
QKalb ==
  [type |-> EnglishToArabic, questionText |-> "dog", hasOptions |-> TRUE,
   options |-> <<ArabicOption("qitt"), ArabicOption("kalb")>>,
   correctAnswer |-> "kalb"]

QOffList ==
  [type |-> ArabicToEnglish, questionText |-> "tayr", hasOptions |-> TRUE,
   options |-> <<StringOption("cat"), StringOption("dog")>>,
   correctAnswer |-> "bird"]

QNoAnswer == [QKalb EXCEPT !.correctAnswer = ""]

QNoOptions == [QOffList EXCEPT !.hasOptions = FALSE, !.options = <<>>]

Questions == {QKalb, QOffList, QNoAnswer, QNoOptions}

QuizzesOfLen(n) == [1..n -> Questions]

Quizzes == UNION {QuizzesOfLen(n) : n \in 0..MaxQuizLen}

PlanWith(quiz) ==
  [title |-> "Animals", vocabularyIsArray |-> TRUE, phrasesIsArray |-> TRUE,
   quizIsArray |-> TRUE, quiz |-> quiz]

\* What the backend call can come to: the request fails, the text is not
\* JSON, the JSON is null, or it is an object.
Responses ==
  {[kind |-> "rejected", value |-> NoPlan],
   [kind |-> "notJson", value |-> NoPlan],
   [kind |-> "null", value |-> NoPlan]}
  \cup {[kind |-> "object", value |-> PlanWith(quiz)] : quiz \in Quizzes}
  \cup {[kind |-> "object", value |-> p] :
          p \in {[PlanWith(<<QKalb>>) EXCEPT !.title = ""],
                 [PlanWith(<<QKalb>>) EXCEPT !.vocabularyIsArray = FALSE],
                 [PlanWith(<<QKalb>>) EXCEPT !.phrasesIsArray = FALSE],
                 [PlanWith(<<>>) EXCEPT !.quizIsArray = FALSE]}}

\* QuizView, lines 73-76: the text of an option.
getOptionText(option) == option.text

\* geminiService, lines 169-174: the texts the validation compares the
\* answer with; opt.arabic of a string is undefined, and an object is never
\* equal to a string.
OptionsTexts(q) ==
  IF q.type = EnglishToArabic
    THEN {q.options[i].text :
            i \in {j \in 1..Len(q.options) : q.options[j].kind = "object"}}
    ELSE {q.options[i].text :
            i \in {j \in 1..Len(q.options) : q.options[j].kind = "string"}}

\* geminiService, line 166.
Malformed(q) ==
  q.type = "" \/ q.questionText = "" \/ ~q.hasOptions \/ q.correctAnswer = ""

\* geminiService, lines 165-178: the index of the first malformed question,
\* 0 when there is none.
FirstMalformed(quiz) ==
  IF \E i \in 1..Len(quiz) : Malformed(quiz[i])
    THEN CHOOSE i \in 1..Len(quiz) :
           Malformed(quiz[i]) /\ \A j \in 1..(i - 1) : ~Malformed(quiz[j])
    ELSE 0

\* geminiService, lines 175-177: the questions the validation warns about.
Warned(quiz) ==
  {i \in 1..Len(quiz) : quiz[i].correctAnswer \notin OptionsTexts(quiz[i])}

Thrown(message) == [ok |-> FALSE, plan |-> NoPlan, message |-> message]

\* geminiService, lines 120-191, from the response on: the plan returned or
\* the message of the error thrown.  A correct answer that is not among the
\* options is logged, and the plan is returned.
generateLessonPlan(response) ==
  IF response.kind = "rejected"
    THEN Thrown("Failed to generate lesson plan: request failed")
  ELSE IF response.kind = "notJson"
    THEN Thrown("Failed to parse lesson plan from API response. Content might not be valid JSON. Unexpected token")
  ELSE IF response.kind = "null"
    THEN Thrown("Failed to generate lesson plan: API response is not a valid object.")
  ELSE IF \/ response.value.title = ""
          \/ ~response.value.vocabularyIsArray
          \/ ~response.value.phrasesIsArray
          \/ ~response.value.quizIsArray
    THEN Thrown("Failed to generate lesson plan: Invalid lesson plan structure: missing required fields (title, vocabulary, phrases, or quiz).")
  ELSE IF FirstMalformed(response.value.quiz) /= 0
    THEN Thrown("Failed to generate lesson plan: Quiz question at index "
                \o ToString(FirstMalformed(response.value.quiz) - 1)
                \o " is malformed.")
  ELSE [ok |-> TRUE, plan |-> response.value, message |-> ""]

\* QuizView is mounted with the quiz of the plan, or unmounted.
MountQuiz(n) ==
  /\ currentQuestionIndex' = 0
  /\ selectedAnswer' = NoAnswer
  /\ isAnswered' = FALSE
  /\ score' = 0
  /\ userAnswers' = [i \in 1..n |-> NoAnswer]

UnmountQuiz == MountQuiz(0)

\* App, lines 140-148: handleTopicsSubmit up to the await.
handleTopicsSubmit ==
  IF ~apiKeyConfigured
    THEN /\ currentView' = "apiKeyMissing"
         /\ UNCHANGED <<isLoading, appError, request, backendCalls>>
    ELSE /\ isLoading' = TRUE
         /\ appError' = NoError
         /\ currentView' = "loading"
         /\ request' = request + 1
         /\ backendCalls' = backendCalls + 1

\* TopicInputForm, lines 55-86: the form is submitted.  With a file chosen
\* the handler waits for the file to be read and the form stays enabled;
\* without one it calls onSubmit at once.
HandleSubmit ==
  /\ currentView = "setup"
  /\ ~isLoading
  /\ backendCalls + fileReads < MaxBackendCalls
  /\ \E withFile \in BOOLEAN :
       IF withFile
         THEN /\ fileReads' = fileReads + 1
              /\ UNCHANGED <<currentView, isLoading, appError, request,
                             backendCalls, quizVars>>
         ELSE /\ handleTopicsSubmit
              /\ UnmountQuiz
              /\ UNCHANGED fileReads
  /\ UNCHANGED <<apiKeyConfigured, lessonPlan, quizScore, userQuizAnswers>>

\* TopicInputForm, lines 67-85: the file has been read, or reading failed.
FileRead ==
  /\ fileReads > 0
  /\ fileReads' = fileReads - 1
  /\ \E readOk \in BOOLEAN :
       IF readOk
         THEN handleTopicsSubmit /\ UnmountQuiz
         ELSE UNCHANGED <<currentView, isLoading, appError, request,
                          backendCalls, quizVars>>
  /\ UNCHANGED <<apiKeyConfigured, lessonPlan, quizScore, userQuizAnswers>>

HandleTopicsSubmitSettled_NoFinally ==
  /\ request > 0
  /\ request' = request - 1
  /\ \E response \in Responses :
       LET result == generateLessonPlan(response)
       IN  IF result.ok
             THEN /\ lessonPlan' = result.plan
                  /\ currentView' = "lesson"
                  /\ UNCHANGED appError
             ELSE /\ appError' = "Failed to generate lesson: " \o result.message
                                 \o ". Check console for details."
                  /\ currentView' = "error"
                  /\ UNCHANGED lessonPlan
  /\ UNCHANGED isLoading
  /\ UnmountQuiz
  /\ UNCHANGED <<apiKeyConfigured, quizScore, userQuizAnswers, backendCalls,
                 fileReads>>

\* App, lines 149-159: generateLessonPlan has settled and handleTopicsSubmit
\* runs to its end.
HandleTopicsSubmitSettled ==
  /\ request > 0
  /\ request' = request - 1
  /\ \E response \in Responses :
       LET result == generateLessonPlan(response)
       IN  IF result.ok
             THEN /\ lessonPlan' = result.plan
                  /\ currentView' = "lesson"
                  /\ UNCHANGED appError
             ELSE /\ appError' = "Failed to generate lesson: " \o result.message
                                 \o ". Check console for details."
                  /\ currentView' = "error"
                  /\ UNCHANGED lessonPlan
  /\ isLoading' = FALSE
  /\ UnmountQuiz
  /\ UNCHANGED <<apiKeyConfigured, quizScore, userQuizAnswers, backendCalls,
                 fileReads>>

\* App, lines 162-171.
handleStartQuiz ==
  IF lessonPlan /= NoPlan /\ lessonPlan.quizIsArray /\ Len(lessonPlan.quiz) > 0
    THEN /\ quizScore' = 0
         /\ userQuizAnswers' = [i \in 1..Len(lessonPlan.quiz) |-> NoAnswer]
         /\ currentView' = "quiz"
         /\ MountQuiz(Len(lessonPlan.quiz))
         /\ UNCHANGED appError
    ELSE /\ appError' = "Cannot start quiz: No quiz questions found in the lesson plan."
         /\ currentView' = "error"
         /\ UnmountQuiz
         /\ UNCHANGED <<quizScore, userQuizAnswers>>

\* The screen App renders, lines 193-266: the loading screen hides the view
\* while isLoading.
Shown(view) == currentView = view /\ ~isLoading

\* LessonView, lines 200-209: the button "Start Quiz" is pressed; it is
\* rendered when the quiz has a question.
HandleStartQuiz ==
  /\ Shown("lesson")
  /\ Len(lessonPlan.quiz) > 0
  /\ handleStartQuiz
  /\ UNCHANGED <<apiKeyConfigured, lessonPlan, isLoading, request,
                 backendCalls, fileReads>>

\* App, lines 179-181, from the button of ResultsView.
HandleRestartQuiz ==
  /\ Shown("results")
  /\ handleStartQuiz
  /\ UNCHANGED <<apiKeyConfigured, lessonPlan, isLoading, request,
                 backendCalls, fileReads>>

HandleNewLesson_KeepView ==
  /\ Shown("results") \/ Shown("error")
  /\ lessonPlan' = NoPlan
  /\ appError' = NoError
  /\ UnmountQuiz
  /\ UNCHANGED <<apiKeyConfigured, currentView, quizScore, userQuizAnswers,
                 isLoading, request, backendCalls, fileReads>>

\* App, lines 183-191, from the button of ResultsView or of the error screen.
HandleNewLesson ==
  /\ Shown("results") \/ Shown("error")
  /\ lessonPlan' = NoPlan
  /\ appError' = NoError
  /\ currentView' = (IF apiKeyConfigured THEN "setup" ELSE "apiKeyMissing")
  /\ UnmountQuiz
  /\ UNCHANGED <<apiKeyConfigured, quizScore, userQuizAnswers, isLoading,
                 request, backendCalls, fileReads>>

\* QuizView, line 20.
CurrentQuestion == lessonPlan.quiz[currentQuestionIndex + 1]

handleAnswerSelect_NoAnsweredTest(answer) ==
  /\ selectedAnswer' = answer
  /\ isAnswered' = TRUE
  /\ userAnswers' = [userAnswers EXCEPT ![currentQuestionIndex + 1] = answer]
  /\ score' = (IF answer = CurrentQuestion.correctAnswer
                 THEN score + 1 ELSE score)
  /\ UNCHANGED currentQuestionIndex

\* QuizView, lines 46-60.
handleAnswerSelect(answer) ==
  IF isAnswered
    THEN UNCHANGED quizVars
    ELSE /\ selectedAnswer' = answer
         /\ isAnswered' = TRUE
         /\ userAnswers' =
              [userAnswers EXCEPT ![currentQuestionIndex + 1] = answer]
         /\ score' = (IF answer = CurrentQuestion.correctAnswer
                        THEN score + 1 ELSE score)
         /\ UNCHANGED currentQuestionIndex

\* QuizView, lines 185-219: an option of the current question is chosen.
HandleAnswerSelect ==
  /\ Shown("quiz")
  /\ \E i \in 1..Len(CurrentQuestion.options) :
       handleAnswerSelect(getOptionText(CurrentQuestion.options[i]))
  /\ UNCHANGED <<apiKeyConfigured, currentView, lessonPlan, quizScore,
                 userQuizAnswers, isLoading, appError, request, backendCalls,
                 fileReads>>

\* App, lines 173-177; QuizView leaves the screen.
handleQuizComplete(finalScore, answers) ==
  /\ quizScore' = finalScore
  /\ userQuizAnswers' = answers
  /\ currentView' = "results"
  /\ UnmountQuiz

\* QuizView, lines 62-71.
handleNextQuestion ==
  IF currentQuestionIndex < Len(lessonPlan.quiz) - 1
    THEN /\ currentQuestionIndex' = currentQuestionIndex + 1
         /\ selectedAnswer' = NoAnswer
         /\ isAnswered' = FALSE
         /\ UNCHANGED <<score, userAnswers, currentView, quizScore,
                        userQuizAnswers>>
    ELSE handleQuizComplete(score, userAnswers)

HandleNextQuestion_Unanswered ==
  /\ Shown("quiz")
  /\ handleNextQuestion
  /\ UNCHANGED <<apiKeyConfigured, lessonPlan, isLoading, appError, request,
                 backendCalls, fileReads>>

\* QuizView, lines 222-231: the button "Next Question" or "Show Results" is
\* pressed; it is rendered once the question is answered.
HandleNextQuestion ==
  /\ Shown("quiz")
  /\ isAnswered
  /\ handleNextQuestion
  /\ UNCHANGED <<apiKeyConfigured, lessonPlan, isLoading, appError, request,
                 backendCalls, fileReads>>

InitApp ==
  /\ NoTextCall
  /\ FlashcardMounted
  /\ \E configured \in BOOLEAN : AppMounted(configured)

NextApp ==
  \/ (HandleSubmit /\ UNCHANGED <<textVars, speechVars>>)
  \/ (FileRead /\ UNCHANGED <<textVars, speechVars>>)
  \/ (HandleTopicsSubmitSettled /\ UNCHANGED <<textVars, speechVars>>)
  \/ (HandleStartQuiz /\ UNCHANGED <<textVars, speechVars>>)
  \/ (HandleAnswerSelect /\ UNCHANGED <<textVars, speechVars>>)
  \/ (HandleNextQuestion /\ UNCHANGED <<textVars, speechVars>>)
  \/ (HandleRestartQuiz /\ UNCHANGED <<textVars, speechVars>>)
  \/ (HandleNewLesson /\ UNCHANGED <<textVars, speechVars>>)

SpecApp == InitApp /\ [][NextApp]_vars

(* ---------------- properties ---------------- *)

Scorers == {"calculateSimilarity", "calculateArabicSimilarity"}

\* The call of f has returned.
Returned(f) == pc = "done" /\ fn = f

\* The integer nearest to 100 * num / den, a tie going up: the r with
\* r - 1/2 <= 100 * num / den < r + 1/2.
RoundHalfUp(num, den) ==
  CHOOSE r \in 0..100 :
    /\ 2 * den * r - den <= 200 * num
    /\ 200 * num < 2 * den * r + den

\* b is a with some of its diacritic code points deleted; the two then have
\* the same code points that are not diacritics.
RECURSIVE DiacriticsDeleted(_, _)
DiacriticsDeleted(a, b) ==
  IF a = <<>> THEN b = <<>>
  ELSE IF SelectSeq(a, LAMBDA c : c \notin Diacritics)
            /= SelectSeq(b, LAMBDA c : c \notin Diacritics) THEN FALSE
  ELSE \/ Head(a) \in Diacritics /\ DiacriticsDeleted(Tail(a), b)
       \/ b /= <<>> /\ Head(a) = Head(b) /\ DiacriticsDeleted(Tail(a), Tail(b))

\* a and b have the same length n >= 1 and differ in exactly one position.
OneSubstitution(a, b) ==
  /\ Len(a) = Len(b)
  /\ Len(a) >= 1
  /\ Cardinality({i \in 1..Len(a) : a[i] /= b[i]}) = 1

\* C1: calculateSimilarity and calculateArabicSimilarity return an integer
\* between 0 and 100 for every pair of strings.
C1_ScoreInRange ==
  (pc = "done" /\ fn \in Scorers) => ret \in 0..100

\* C1 witness: a scored pair of strings of very different length, score 0.
C1_Witness ==
  /\ Returned("calculateArabicSimilarity")
  /\ path = "scored"
  /\ Len(str1) >= Len(str2) + 2
  /\ ret = 0

\* C2: normalizeArabicText is idempotent: normalizing its result again
\* returns the result unchanged.
C2_Idempotent ==
  Returned("normalizeArabicText") => normalizeArabicText(retText) = retText

\* C3: both arguments empty scores 100, exactly one empty scores 0, and
\* calculateArabicSimilarity decides this on the raw inputs, before any
\* normalization.
C3_EmptyHandling ==
  (pc = "done" /\ fn \in Scorers) =>
    /\ (str1 = <<>> /\ str2 = <<>>) => ret = 100
    /\ ((str1 = <<>>) /= (str2 = <<>>)) => ret = 0
    /\ (str1 = <<>> \/ str2 = <<>>) => (normalizeCalls = 0 /\ distanceCalls = 0)

\* C3 witness: the Arabic scorer returned 0 for an empty string against a
\* non-empty string whose normal form is empty.
C3_Witness ==
  /\ Returned("calculateArabicSimilarity")
  /\ str1 = <<>>
  /\ str2 /= <<>>
  /\ normalizeArabicText(str2) = <<>>
  /\ ret = 0

\* C4: a non-empty string scores 100 against itself, with both scorers.
C4_Identity ==
  (pc = "done" /\ fn \in Scorers /\ str1 = str2 /\ str1 /= <<>>) => ret = 100

\* C4 witness: the Arabic scorer returned 100 for a two-character string,
\* which normalization changes, against itself.
C4_Witness ==
  /\ Returned("calculateArabicSimilarity")
  /\ str1 = str2
  /\ Len(str1) = 2
  /\ normalizeArabicText(str1) \notin {str1, <<>>}
  /\ ret = 100

\* C5 as claimed: if one argument is the other with some diacritics deleted,
\* calculateArabicSimilarity returns 100, for every string.
C5_DiacriticsOnly ==
  (/\ Returned("calculateArabicSimilarity")
   /\ DiacriticsDeleted(str1, str2) \/ DiacriticsDeleted(str2, str1))
  => ret = 100

\* C5 amended: if one argument is the other with some diacritics deleted and
\* the two are both empty or both non-empty, calculateArabicSimilarity
\* returns 100.
C5_DiacriticsOnlyNonEmpty ==
  (/\ Returned("calculateArabicSimilarity")
   /\ (str1 = <<>>) = (str2 = <<>>)
   /\ DiacriticsDeleted(str1, str2) \/ DiacriticsDeleted(str2, str1))
  => ret = 100

\* C5 witness: the second argument is the first without its diacritics,
\* differs from the first and has a non-empty normal form; the score is 100.
C5_Witness ==
  /\ Returned("calculateArabicSimilarity")
  /\ str2 /= <<>>
  /\ str1 /= str2
  /\ DiacriticsDeleted(str1, str2)
  /\ normalizeArabicText(str2) /= <<>>
  /\ ret = 100

\* C6: calculateSimilarity(a, b) = calculateSimilarity(b, a).
C6_Symmetric ==
  Returned("calculateSimilarity") => ret = calculateSimilarity(str2, str1)

\* C6 witness: a scored pair of strings of different length with a score
\* strictly between 0 and 100.
C6_Witness ==
  /\ Returned("calculateSimilarity")
  /\ path = "scored"
  /\ Len(BasicNormalize(str1)) < Len(BasicNormalize(str2))
  /\ ret \in 1..99

\* C7: when both inputs are non-empty and their trimmed, lowercased forms
\* differ, calculateSimilarity returns max(0, round((M - d) / M * 100)),
\* halves rounded up, M the longer length and d the edit distance.
C7_ScoreFormula ==
  LET a == toLowerCase(trim(str1))
      b == toLowerCase(trim(str2))
      M == Max(Len(a), Len(b))
      d == levenshteinDistance(a, b)
  IN (/\ Returned("calculateSimilarity")
      /\ str1 /= <<>>
      /\ str2 /= <<>>
      /\ a /= b)
     => ret = Max(0, RoundHalfUp(M - d, M))

\* C8 as claimed: two strings of equal length n >= 1 that differ in exactly
\* one position score round((n - 1) / n * 100).
C8_OneSubstitutionRaw ==
  (Returned("calculateSimilarity") /\ OneSubstitution(str1, str2))
  => ret = RoundHalfUp(Len(str1) - 1, Len(str1))

\* C8 amended: two strings whose trimmed, lowercased forms have equal length
\* n >= 1 and differ in exactly one position score round((n - 1) / n * 100),
\* which is 80 for n = 5.
C8_OneSubstitution ==
  LET a == toLowerCase(trim(str1))
      b == toLowerCase(trim(str2))
  IN (Returned("calculateSimilarity") /\ OneSubstitution(a, b))
     => /\ ret = RoundHalfUp(Len(a) - 1, Len(a))
        /\ Len(a) = 5 => ret = 80

\* C8 witness: two five-character strings differing in one position scored 80.
C8_Witness ==
  /\ Returned("calculateSimilarity")
  /\ OneSubstitution(str1, str2)
  /\ Len(str1) = 5
  /\ ret = 80

\* C9: two non-empty strings that are equal after trimming and lowercasing
\* score 100 and no edit distance is computed.
C9_ExactMatch ==
  (/\ Returned("calculateSimilarity")
   /\ str1 /= <<>>
   /\ str2 /= <<>>
   /\ toLowerCase(trim(str1)) = toLowerCase(trim(str2)))
  => (ret = 100 /\ distanceCalls = 0)

\* C9 witness: two strings that differ in case and in outer white space,
\* equal after trimming and lowercasing, scored 100.
C9_Witness ==
  /\ Returned("calculateSimilarity")
  /\ trim(str1) /= str1
  /\ trim(str1) /= trim(str2)
  /\ trim(str1) /= <<>>
  /\ toLowerCase(trim(str1)) = toLowerCase(trim(str2))
  /\ ret = 100

\* C10: for non-empty inputs calculateArabicSimilarity returns what
\* calculateSimilarity returns on the two normalized inputs.
C10_Delegates ==
  (/\ Returned("calculateArabicSimilarity")
   /\ str1 /= <<>>
   /\ str2 /= <<>>)
  => /\ ret = calculateSimilarity(normalizeArabicText(str1),
                                  normalizeArabicText(str2))
     /\ normalizeCalls = 2

\* C10 witness: a scored pair, both inputs changed by normalization, whose
\* score differs from the score of the raw inputs.
C10_Witness ==
  /\ Returned("calculateArabicSimilarity")
  /\ path = "scored"
  /\ normalizeArabicText(str1) /= str1
  /\ normalizeArabicText(str2) /= str2
  /\ ret /= calculateSimilarity(str1, str2)

\* The number of positions of s that hold the character c.
CountOf(s, c) == Cardinality({i \in 1..Len(s) : s[i] = c})

\* The code points normalization deletes or rewrites everywhere: the
\* diacritics U+064B..U+0652 and U+0670, the Alef variants U+0622, U+0623 and
\* U+0625, Taa Marbuta U+0629 and Tatweel U+0640.
RemovedCodePoints ==
  (1611..1618) \cup {1648} \cup {1570, 1571, 1573} \cup {1577} \cup {1600}

\* The four forms of Alef: madda, hamza above, hamza below, plain.
AlefForms == {1570, 1571, 1573, 1575}

\* a and b differ only in which Alef form stands at each Alef position.
SameUpToAlefForm(a, b) ==
  /\ Len(a) = Len(b)
  /\ \A i \in 1..Len(a) : a[i] = b[i] \/ (a[i] \in AlefForms /\ b[i] \in AlefForms)

\* Every white space character of s is a space that stands between two
\* characters that are not white space.
CollapsedAndTrimmed(s) ==
  \A i \in 1..Len(s) :
    s[i] \in WhiteSpace =>
      /\ s[i] = 32
      /\ 1 < i
      /\ i < Len(s)
      /\ s[i + 1] \notin WhiteSpace

\* The increase of the number of Alef Maqsura from the input to the output
\* of normalizeArabicText: the number of Yaa rewritten.
YaaRewritten == CountOf(retText, 1609) - CountOf(str1, 1609)

\* C11: the output of normalizeArabicText contains no diacritic, Alef
\* variant, Taa Marbuta or Tatweel, and every Taa Marbuta of the input is a
\* Haa of the output.
C11_NoRemovedCodePoints ==
  Returned("normalizeArabicText") =>
    /\ \A i \in 1..Len(retText) : retText[i] \notin RemovedCodePoints
    /\ CountOf(retText, 1607) = CountOf(str1, 1607) + CountOf(str1, 1577)

\* C11 witness: an input with a Taa Marbuta and two other removed code
\* points, normalized to a string with a Haa.
C11_Witness ==
  /\ Returned("normalizeArabicText")
  /\ CountOf(str1, 1577) >= 1
  /\ Cardinality({i \in 1..Len(str1) : str1[i] \in RemovedCodePoints}) >= 3
  /\ CountOf(retText, 1607) >= 1

\* C12: two strings that differ only in the Alef form at each Alef position
\* have the same normalizeArabicText output.
C12_AlefUnification ==
  (Returned("normalizeArabicText") /\ SameUpToAlefForm(str1, str2))
  => retText = normalizeArabicText(str2)

\* C12 witness: two different two-character strings that differ only in
\* their Alef forms, the first one normalized.
C12_Witness ==
  /\ Returned("normalizeArabicText")
  /\ str1 /= str2
  /\ Len(str1) = 2
  /\ SameUpToAlefForm(str1, str2)
  /\ retText /= <<>>

\* C13: the output of normalizeArabicText has no leading or trailing white
\* space, no white space character other than a space, and no two adjacent
\* spaces.
C13_WhiteSpaceCollapsed ==
  Returned("normalizeArabicText") => CollapsedAndTrimmed(retText)

\* C13 witness: an input with leading and trailing white space and an inner
\* run of white space that holds a character other than a space, normalized
\* to a string with a space.
C13_Witness ==
  /\ Returned("normalizeArabicText")
  /\ str1 /= <<>>
  /\ str1[1] \in WhiteSpace
  /\ str1[Len(str1)] \in WhiteSpace
  /\ \E i \in 2..(Len(str1) - 1) :
       /\ str1[i - 1] \notin WhiteSpace
       /\ str1[i] \in WhiteSpace
       /\ str1[i + 1] \in WhiteSpace \ {32}
  /\ CountOf(retText, 32) >= 1

\* C14 as claimed: a Yaa is rewritten to Alef Maqsura only if it is the last
\* character of the input, at most one Yaa is rewritten, and every other Yaa
\* stays a Yaa.
C14_FinalYaaOfInput ==
  Returned("normalizeArabicText") =>
    /\ YaaRewritten \in {0, 1}
    /\ YaaRewritten = 1 => (str1 /= <<>> /\ str1[Len(str1)] = 1610)
    /\ CountOf(retText, 1610) = CountOf(str1, 1610) - YaaRewritten

\* C14 amended: a Yaa is rewritten to Alef Maqsura only if nothing but
\* diacritics follows it in the input, at most one Yaa is rewritten, and
\* every other Yaa stays a Yaa.
C14_FinalYaaAfterDiacritics ==
  Returned("normalizeArabicText") =>
    /\ YaaRewritten \in {0, 1}
    /\ YaaRewritten = 1 =>
         \E i \in 1..Len(str1) :
           /\ str1[i] = 1610
           /\ \A k \in (i + 1)..Len(str1) : str1[k] \in (1611..1618) \cup {1648}
    /\ CountOf(retText, 1610) = CountOf(str1, 1610) - YaaRewritten

\* C14 witness: an input with a word-final Yaa before a space and a Yaa at
\* its end; only the last one became Alef Maqsura.
C14_Witness ==
  /\ Returned("normalizeArabicText")
  /\ Len(str1) = 3
  /\ str1[1] = 1610
  /\ str1[2] = 32
  /\ str1[3] = 1610
  /\ retText = <<1610, 32, 1609>>

\* C15: normalizeArabicText("") = "", and a string without a code point that
\* steps 1-5 target, already white-space-collapsed and trimmed, is returned
\* unchanged.
C15_PassThrough ==
  Returned("normalizeArabicText") =>
    /\ str1 = <<>> => retText = <<>>
    /\ (/\ \A i \in 1..Len(str1) : str1[i] \notin RemovedCodePoints \cup {1610}
        /\ CollapsedAndTrimmed(str1))
       => retText = str1

\* C15 witness: a three-character string of two untargeted letters around a
\* space, returned unchanged.
C15_Witness ==
  /\ Returned("normalizeArabicText")
  /\ Len(str1) = 3
  /\ str1[2] = 32
  /\ \A i \in 1..Len(str1) : str1[i] \notin RemovedCodePoints \cup {1610}
  /\ CollapsedAndTrimmed(str1)
  /\ retText = str1

\* C16: for the reference "sabah al-khayr" with diacritics and the attempt
\* "masaa al-khayr" the normalized strings have a nonzero edit distance and
\* calculateArabicSimilarity returns a score strictly between 0 and 100.
C16_WrongWordScenario ==
  (/\ Returned("calculateArabicSimilarity")
   /\ str1 = SabahAlKhayr
   /\ str2 = MasaaAlKhayr)
  => /\ levenshteinDistance(normalizeArabicText(str1),
                            normalizeArabicText(str2)) > 0
     /\ 0 < ret
     /\ ret < 100

\* C16 witness: the scenario was scored, three of ten characters differ.
C16_Witness ==
  /\ Returned("calculateArabicSimilarity")
  /\ str1 = SabahAlKhayr
  /\ str2 = MasaaAlKhayr
  /\ path = "scored"
  /\ ret = 70

\* C19: no call of a scorer takes the maxLength === 0 return of
\* calculateSimilarity, and the division is reached with maxLength >= 1 only.
C19_FallbackUnreachable ==
  LET a == IF fn = "calculateSimilarity" THEN str1 ELSE normalizeArabicText(str1)
      b == IF fn = "calculateSimilarity" THEN str2 ELSE normalizeArabicText(str2)
  IN (pc = "done" /\ fn \in Scorers) =>
       /\ path /= "fallback"
       /\ path = "scored" =>
            Max(Len(toLowerCase(trim(a))), Len(toLowerCase(trim(b)))) >= 1

\* C19 witness: two different non-empty strings of white space only, for
\* which maxLength would be 0, returned through the exact-match check.
C19_Witness ==
  /\ Returned("calculateSimilarity")
  /\ str1 /= <<>>
  /\ str2 /= <<>>
  /\ str1 /= str2
  /\ trim(str1) = <<>>
  /\ trim(str2) = <<>>
  /\ path = "exactMatch"

\* The strings one insertion, deletion or substitution away from s.
OneEdit(s) ==
  LET n == Len(s)
  IN {SubSeq(s, 1, i - 1) \o SubSeq(s, i + 1, n) : i \in 1..n}
     \cup {SubSeq(s, 1, i) \o <<c>> \o SubSeq(s, i + 1, n) :
             i \in 0..n, c \in LevAlphabet}
     \cup UNION {{SubSeq(s, 1, i - 1) \o <<c>> \o SubSeq(s, i + 1, n) :
                    c \in LevAlphabet \ {s[i]}} : i \in 1..n}

\* The strings at most k edits away from s.
RECURSIVE WithinEdits(_, _)
WithinEdits(s, k) ==
  IF k = 0 THEN {s}
  ELSE LET closer == WithinEdits(s, k - 1)
       IN closer \cup UNION {OneEdit(t) : t \in closer}

\* <<a, k, b>>: b is at most k edits away from a.
EditTriples ==
  UNION {UNION {{<<a, k, b>> : b \in WithinEdits(a, k) \cap LevStrings} :
                  k \in 0..MaxLevLen} : a \in LevStrings}

\* The least number of edits that turn a into b.
MinEdits(a, b) ==
  CHOOSE k \in 0..MaxLevLen :
    /\ <<a, k, b>> \in EditTriples
    /\ k = 0 \/ <<a, k - 1, b>> \notin EditTriples

\* The recurrence of the specification, on the prefixes of length i and j.
RECURSIVE RecurrenceDp(_, _, _, _)
RecurrenceDp(a, b, i, j) ==
  IF i = 0 THEN j
  ELSE IF j = 0 THEN i
  ELSE Min3(RecurrenceDp(a, b, i - 1, j) + 1,
            RecurrenceDp(a, b, i, j - 1) + 1,
            RecurrenceDp(a, b, i - 1, j - 1) + (IF a[i] = b[j] THEN 0 ELSE 1))

\* C18: levenshteinDistance returns the least number of insertions,
\* deletions and substitutions that turn s1 into s2, which is the value of
\* the recurrence; it is 0 exactly when s1 = s2 and at most the longer length.
C18_MinimumEdits ==
  Returned("levenshteinDistance") =>
    /\ ret = MinEdits(str1, str2)
    /\ ret = RecurrenceDp(str1, str2, Len(str1), Len(str2))
    /\ ret = 0 <=> str1 = str2
    /\ ret <= Max(Len(str1), Len(str2))

\* C18 witness: two strings of different lengths whose distance needs an
\* insertion and a substitution.
C18_Witness ==
  /\ Returned("levenshteinDistance")
  /\ Len(str1) = 3
  /\ Len(str2) = 4
  /\ ret = 2
  /\ str2 \notin OneEdit(str1)

\* The transcripts of the final segments among segments j..k of the
\* delivered ones, concatenated.
FinalTextOf(j, k) == ChunkOf(SubSeq(heard, j, k), TRUE)

\* C17: the flashcard calls calculateArabicSimilarity only when isListening
\* is false, and only with a non-empty transcript that is the concatenation
\* of the final segments of a stretch of the delivered results, the interim
\* segments of the stretch left out.
C17_OnlyFinalSpeechScored ==
  scorerCall.invoked =>
    /\ ~scorerCall.isListening
    /\ scorerCall.reference = ItemArabic
    /\ scorerCall.attempt /= <<>>
    /\ \E j \in 1..Len(heard) : \E k \in j..Len(heard) :
         scorerCall.attempt = FinalTextOf(j, k)

\* C17 witness: the recognizer delivered an interim and a final segment with
\* different texts and the final one was scored after listening ended.
C17_Witness ==
  /\ scorerCall.invoked
  /\ ~isListening
  /\ recognition = "idle"
  /\ Len(heard) = 2
  /\ ~heard[1].isFinal
  /\ heard[2].isFinal
  /\ heard[1].transcript /= heard[2].transcript
  /\ scorerCall.attempt = heard[2].transcript
  /\ attemptScore = calculateArabicSimilarity(ItemArabic, transcript)

\* C20: every score in 0..100 has exactly one tier, green from 75, yellow
\* from 50 to 74, red below 50; the tier the flashcard shows is the one of
\* attemptScore, and a score of 100 is shown green.
C20_FeedbackTiers ==
  /\ \A percent \in 0..100 :
       /\ percent >= 75 <=> FeedbackTier(percent) = "text-green-600"
       /\ (50 <= percent /\ percent < 75) <=> FeedbackTier(percent) = "text-yellow-600"
       /\ percent < 50 <=> FeedbackTier(percent) = "text-red-600"
  /\ (attemptScore /= NoScore /\ ~isListening) =>
       /\ attemptScore \in 0..100
       /\ ShownTier = (IF attemptScore >= 75 THEN "text-green-600"
                       ELSE IF attemptScore >= 50 THEN "text-yellow-600"
                       ELSE "text-red-600")
       /\ attemptScore = 100 => ShownTier = "text-green-600"

\* C20 witness: an attempt that differs from the reference in diacritics
\* only was scored 100 and is shown green.
C20_Witness ==
  /\ ~isListening
  /\ attemptScore = 100
  /\ finalUserAttempt = ShukranPlain
  /\ finalUserAttempt /= ItemArabic
  /\ ShownTier = "text-green-600"

\* The non-empty strings a with s = w1 \o a \o w2 for white space strings w1
\* and w2, s itself left out.
Cores(s) ==
  {SubSeq(s, i, j) : <<i, j>> \in
     {p \in (1..Len(s)) \X (1..Len(s)) :
        /\ p[1] <= p[2]
        /\ p[2] - p[1] + 1 < Len(s)
        /\ \A k \in 1..(p[1] - 1) : s[k] \in WhiteSpace
        /\ \A k \in (p[2] + 1)..Len(s) : s[k] \in WhiteSpace}}

\* C21: white space before or after either argument does not change the
\* result of calculateArabicSimilarity: with a non-empty a inside the first
\* argument and a non-empty second argument the result is that of a, and
\* likewise for the second argument.
C21_OuterWhiteSpaceIgnored ==
  Returned("calculateArabicSimilarity") =>
    /\ str2 /= <<>> =>
         \A a \in Cores(str1) : ret = calculateArabicSimilarity(a, str2)
    /\ str1 /= <<>> =>
         \A b \in Cores(str2) : ret = calculateArabicSimilarity(str1, b)

\* C22: for non-empty arguments calculateSimilarity returns 100 only if the
\* trimmed, lowercased strings are equal, and 0 only if their edit distance
\* is the longer of their lengths.
C22_PerfectMeansExact ==
  LET a == toLowerCase(trim(str1))
      b == toLowerCase(trim(str2))
  IN (Returned("calculateSimilarity") /\ str1 /= <<>> /\ str2 /= <<>>) =>
       /\ ret = 100 => a = b
       /\ ret = 0 => levenshteinDistance(a, b) = Max(Len(a), Len(b))

\* C27: a score shown is the score of the current transcript, shown with
\* that transcript as the attempt, and the transcript scored was delivered
\* by a session that records the attempt the last mic click started: after
\* a new attempt starts there is no score until that attempt has been scored.
C27_NoStaleScore ==
  /\ attemptScore = NoScore => finalUserAttempt = <<>>
  /\ attemptScore /= NoScore =>
       /\ attemptScore = calculateArabicSimilarity(ItemArabic, transcript)
       /\ finalUserAttempt = transcript
       /\ scorerCall.session = starts

\* C28: a call of startListening while listening or unsupported changes
\* nothing of the hook and does not call recognition.start(); any other call
\* leaves transcript and interimTranscript empty and has cleared error
\* before its call of recognition.start().
C28_StartListeningGuard ==
  [][hookCall' = "startListening" =>
       IF isListening \/ ~isSupported
       THEN UNCHANGED <<transcript, interimTranscript, error, isListening,
                        recognition, starts>>
       ELSE /\ transcript' = <<>>
            /\ interimTranscript' = <<>>
            /\ starts' = starts + 1
            /\ error' = (IF recognition' /= recognition THEN NoError
                         ELSE CouldNotStart)]_vars

\* C28 witness: startListening was called while listening; the hook still
\* listens and its transcript is kept.
C28_Witness ==
  /\ hookCall = "startListening"
  /\ isListening
  /\ recognition = "running"
  /\ transcript /= <<>>

\* C29: recognition.start() is never called while the session of an earlier
\* call has not ended, so the hook never sets the 'Could not start' error
\* and listens only while a session is running.
C29_NeverStartedTwice ==
  /\ error /= CouldNotStart
  /\ isListening => recognition = "running"

\* The entries of answers that are the correct answer of their question, and
\* the entries that hold an answer.
Matches(answers, quiz) ==
  {i \in 1..Len(quiz) : i <= Len(answers) /\ answers[i] = quiz[i].correctAnswer}

Answered(answers) == {i \in 1..Len(answers) : answers[i] /= NoAnswer}

\* C23: currentView is always one of the views of AppView; in the views
\* lesson, quiz and results there is a lesson plan; in the views quiz and
\* results the quiz of the plan has at least one question.
C23_ViewInvariants ==
  /\ currentView \in AppView
  /\ currentView \in {"lesson", "quiz", "results"} => lessonPlan /= NoPlan
  /\ currentView \in {"quiz", "results"} => Len(lessonPlan.quiz) >= 1

\* C23 witness: the results of a quiz of two questions are shown, after a
\* first lesson was abandoned.
C23_Witness ==
  /\ currentView = "results"
  /\ Len(lessonPlan.quiz) = 2
  /\ backendCalls = 2

\* C24: without an API key the backend is never called and the view is
\* apiKeyMissing; the view is loading only while a call of
\* generateLessonPlan has not settled; and the step in which a call settles
\* ends with isLoading false and either the view lesson with a plan stored
\* or the view error with an error message.
C24_LoadingResolves ==
  /\ [](~apiKeyConfigured => backendCalls = 0 /\ currentView = "apiKeyMissing")
  /\ [](currentView = "loading" => request > 0 /\ isLoading)
  /\ [][request' < request =>
          /\ isLoading' = FALSE
          /\ \/ currentView' = "lesson" /\ lessonPlan' /= NoPlan
             \/ currentView' = "error" /\ appError' /= NoError]_vars

\* C24 witness: the only call made has failed; the error screen is shown
\* and nothing is loading.
C24_Witness ==
  /\ backendCalls = 1
  /\ request = 0
  /\ currentView = "error"
  /\ appError /= NoError
  /\ lessonPlan = NoPlan
  /\ ~isLoading

\* C25: in the quiz, score is the number of questions whose recorded answer
\* is the correct answer, 0 <= score <= answered questions <= questions; an
\* answer once recorded never changes, and choosing an option while the
\* current question is answered changes nothing.
C25_AnsweredOnce ==
  /\ [](currentView = "quiz" =>
          /\ Len(userAnswers) = Len(lessonPlan.quiz)
          /\ score = Cardinality(Matches(userAnswers, lessonPlan.quiz))
          /\ 0 <= score
          /\ score <= Cardinality(Answered(userAnswers))
          /\ Cardinality(Answered(userAnswers)) <= Len(lessonPlan.quiz))
  /\ [][(currentView = "quiz" /\ currentView' = "quiz") =>
          /\ \A i \in Answered(userAnswers) : userAnswers'[i] = userAnswers[i]
          /\ \/ ~isAnswered
             \/ currentQuestionIndex' /= currentQuestionIndex
             \/ UNCHANGED <<selectedAnswer, isAnswered, score, userAnswers>>]_vars

\* C25 witness: two questions are answered, one of them correctly.
C25_Witness ==
  /\ currentView = "quiz"
  /\ isAnswered
  /\ Cardinality(Answered(userAnswers)) = 2
  /\ score = 1

\* C26: in the quiz currentQuestionIndex is within 0 .. quiz.length - 1; it
\* changes only by one step up, from an answered question; the results are
\* reached only from the last question once it is answered, with every
\* answer recorded and the score reported equal to the number of correct
\* answers, the last one included.
C26_QuizProgress ==
  /\ [](currentView = "quiz" =>
          currentQuestionIndex \in 0..(Len(lessonPlan.quiz) - 1))
  /\ [][(currentView = "quiz" /\ currentView' = "quiz"
           /\ currentQuestionIndex' /= currentQuestionIndex) =>
          (isAnswered /\ currentQuestionIndex' = currentQuestionIndex + 1)]_vars
  /\ [][(currentView /= "quiz" /\ currentView' = "quiz") =>
          currentQuestionIndex' = 0]_vars
  /\ [][(currentView = "quiz" /\ currentView' = "results") =>
          /\ isAnswered
          /\ currentQuestionIndex = Len(lessonPlan.quiz) - 1
          /\ Answered(userAnswers) = 1..Len(lessonPlan.quiz)
          /\ userQuizAnswers' = userAnswers
          /\ quizScore' = score
          /\ quizScore' =
               Cardinality(Matches(userQuizAnswers', lessonPlan.quiz))]_vars

\* C26 witness: the results of a quiz of two questions, the last answered
\* correctly and the first not.
C26_Witness ==
  /\ currentView = "results"
  /\ Len(userQuizAnswers) = 2
  /\ quizScore = 1
  /\ Matches(userQuizAnswers, lessonPlan.quiz) = {2}

\* The text of one of the options of q, as QuizView shows them.
OptionTexts(q) == {getOptionText(q.options[i]) : i \in 1..Len(q.options)}

\* C30: a lesson plan that the application holds has a title, arrays
\* vocabulary, phrases and quiz, and every question of its quiz has a type,
\* a text, options and a correct answer that is the text of one of its
\* options.
C30_PlanWellFormed ==
  lessonPlan /= NoPlan =>
    /\ lessonPlan.title /= ""
    /\ lessonPlan.vocabularyIsArray
    /\ lessonPlan.phrasesIsArray
    /\ lessonPlan.quizIsArray
    /\ \A i \in 1..Len(lessonPlan.quiz) :
         /\ ~Malformed(lessonPlan.quiz[i])
         /\ lessonPlan.quiz[i].correctAnswer \in OptionTexts(lessonPlan.quiz[i])

====
